---- MODULE Spec2Model ----
(***************************************************************************)
(* gerritlab: the stacked-review synchronisation engine.                   *)
(*                                                                         *)
(* The model follows src/gerritlab/main.py (create_merge_requests,         *)
(* merge_merge_requests, get_commits_data), src/gerritlab/merge_request.py *)
(* (MergeRequest and the request listing) and src/gerritlab/utils.py       *)
(* (change ids and branch names).  Strings that the code slices or matches *)
(* (change ids, branch names) are sequences of one-character strings.      *)
(*                                                                         *)
(* A commit is identified by its history: the sha of the i-th commit of a  *)
(* stack is the sequence of the patches from the base up to it, so that    *)
(* amending or moving a commit changes the sha of every commit above it,   *)
(* and "every commit of branch S is contained in branch T" is "the sha of  *)
(* S is a prefix of the sha of T".                                         *)
(***************************************************************************)
EXTENDS Naturals, Integers, Sequences, FiniteSets, TLC

VARIABLES
    local,        \* the local commits ahead of remote/final_branch, oldest first
    branches,     \* backend: branch name -> sha of its head, or None
    mrs,          \* backend: the review requests, mrs[iid]
    pipelines,    \* backend: the CI runs, each with the sha it runs for
    pc,           \* position of the running command
    kind,         \* which command runs: "create" or "merge"
    commits_data, \* the plan (list of Commit objects) of the running command
    idx,          \* loop index of the running phase
    new_mrs,      \* iids of the requests created by this run
    updated_mrs,  \* iids of the requests this run marked updated
    commits_to_pipeline_cancel, \* shas handed to cancel_prev_pipelines
    log,          \* the backend and push calls of this run, in order
    result,       \* how the last command ended
    runs,         \* commands started so far
    faults,       \* backend calls that have failed so far
    merged,       \* what merge_merge_requests returned
    ran,          \* the local stack the running (or last) command started from
    synced,       \* the stack of the last completed create run, while the remote is as that run left it
    rerun,        \* this run started from the stack and the remote a completed create run left
    mr_chain,     \* merge_merge_requests: the chain of main.py:43
    INSTANCES,    \* git_credentials.INSTANCES: host -> GitCredentialStore
    handed,       \* what the calls of git_credentials.instance returned, in order
    do_review     \* create_merge_requests: the last answer read at the prompt

vars == <<local, branches, mrs, pipelines, pc, kind, commits_data, idx, new_mrs,
          updated_mrs, commits_to_pipeline_cancel, log, result, runs, faults,
          merged, ran, synced, rerun, mr_chain, INSTANCES, handed, do_review>>

-----------------------------------------------------------------------------
(* Bounds of the model. *)

MaxCommits == 3

MaxRev == 1

MaxRuns == 2

MaxFaults == 1

MaxCalls == 4

\* Requests on one page of the listing (per_page is 50 at merge_request.py:281;
\* scaled to the number of requests of the model)
PerPage == 2

-----------------------------------------------------------------------------
(* Strings. *)

HexDigits == {"0", "1", "2", "3", "4", "5", "6", "7", "8", "9",
              "a", "b", "c", "d", "e", "f"}

\* merge_request.py:319 "-I[0-9a-f]{40}$"
PatternHexLen == 40

\* utils.py:66 change_id[1:5]
SliceStart == 1

SliceStop == 5

\* Python's s[a:b] on a 1-based sequence.
PySlice(s, a, b) ==
    LET hi == IF b < Len(s) THEN b ELSE Len(s)
    IN  IF a >= hi THEN <<>> ELSE SubSeq(s, a + 1, hi)

\* A Change-Id as the commit-msg hook writes it: "I" and 40 hex digits.  The
\* ids here differ in their first hex digit (p) and in their fifth (q).
MkChangeId(p, q) ==
    <<"I">> \o [i \in 1..PatternHexLen |->
                   IF i = 1 THEN p ELSE IF i = 5 THEN q ELSE "0"]

ChangeIds == << MkChangeId("a", "0"), MkChangeId("b", "0"), MkChangeId("c", "0") >>

\* What the commit messages of the model carry as their Change-Id line: one of
\* ChangeIds, an id (Twin) that agrees with ChangeIds[1] in the characters
\* get_remote_branch_name keeps, or no Change-Id line at all (NoId).
Twin == Len(ChangeIds) + 1

NoId == Len(ChangeIds) + 2

Trailers == ChangeIds \o << MkChangeId("a", "1"), <<>> >>

final_branch == <<"m">>

\* utils.get_remote_branch_name
get_remote_branch_name_ByStack(local_branch, change_id) ==
    local_branch \o <<"-">> \o
    PySlice(IF Len(local) > 1 THEN ChangeIds[1] ELSE change_id, SliceStart, SliceStop)

get_remote_branch_name(local_branch, change_id) ==
    local_branch \o <<"-">> \o PySlice(change_id, SliceStart, SliceStop)

\* re.match(re.escape(branch) + "-I[0-9a-f]{40}$", name)
MatchesPattern(branch, name) ==
    /\ Len(name) = Len(branch) + 2 + PatternHexLen
    /\ SubSeq(name, 1, Len(branch)) = branch
    /\ name[Len(branch) + 1] = "-"
    /\ name[Len(branch) + 2] = "I"
    /\ \A i \in (Len(branch) + 3)..Len(name) : name[i] \in HexDigits

-----------------------------------------------------------------------------
(* Commits. *)

Patches ==
    [cid : DOMAIN ChangeIds, rev : 0..MaxRev] \cup {[cid |-> NoId, rev |-> 0]}

\* A stack: at most MaxCommits patches with pairwise distinct change ids.
Stacks ==
    UNION { { s \in [1..n -> Patches] :
                \A i, j \in 1..n : i # j => s[i].cid # s[j].cid } :
            n \in 0..MaxCommits }

\* git.Commit.hexsha of the i-th commit of stack s.
ShaOf(s, i) == SubSeq(s, 1, i)

\* git.Commit.message: a title line, a body and the Change-Id trailer.
MessageOf(p) == [title |-> p, body |-> p, trailer |-> Trailers[p.cid]]

\* utils.get_change_id: group 1 of the first "Change-Id: (.+?)(\s|$)"
get_change_id(msg) == msg.trailer

\* The source branch of a commit.
SourceOf(p) == get_remote_branch_name(final_branch, Trailers[p.cid])

\* utils.py:56-60, re.search finds no Change-Id line: ValueError
raises_ValueError(msg) == msg.trailer = <<>>

\* utils.get_msg_title_description: the title line and the rest with the
\* Change-Id trailer removed; the rest keeps its surrounding newlines (ws).
get_msg_title_description(msg) ==
    [title |-> msg.title,
     desc  |-> [body |-> msg.body, related |-> <<>>, final |-> <<>>, ws |-> TRUE]]

\* str.strip() of a description
Strip(d) == [d EXCEPT !.ws = FALSE]

Reverse(s) == [i \in 1..Len(s) |-> s[Len(s) + 1 - i]]

\* repo.iter_commits("remote/final_branch.."): newest first.
iter_commits(stack) ==
    Reverse([i \in 1..Len(stack) |-> [patch |-> stack[i], hexsha |-> ShaOf(stack, i)]])

IsPrefix(s, t) == Len(s) <= Len(t) /\ SubSeq(t, 1, Len(s)) = s

\* Python's None for a sha, a branch head or a stack.
None == << [cid |-> 0, rev |-> 0] >>

\* Commit.mr of an entry with no linked request.
NoMR == [iid |-> 0]

-----------------------------------------------------------------------------
(* The plan: main.get_commits_data. *)

\* main.py:165-170, the target branch of the entry at 1-based position i
target_branch_of_Self(commits, i) ==
    get_remote_branch_name(final_branch, get_change_id(MessageOf(commits[i].patch)))

target_branch_of(commits, i) ==
    IF i = 1
    THEN final_branch
    ELSE get_remote_branch_name(
             final_branch, get_change_id(MessageOf(commits[i - 1].patch)))

\* main.py:159, commits.reverse()
oldest_first_NoReverse(commits) == commits

oldest_first(commits) == Reverse(commits)

\* main.py:160-171
plan_of(commits) ==
    [i \in 1..Len(commits) |->
        [commit        |-> commits[i],
         source_branch |-> get_remote_branch_name(
                               final_branch,
                               get_change_id(MessageOf(commits[i].patch))),
         target_branch |-> target_branch_of(commits, i),
         mr            |-> NoMR]]

\* MergeRequest(remote, json_data=...): the engine's copy of request iid
FromJson(iid) ==
    [iid                   |-> iid,
     source_branch         |-> mrs[iid].source_branch,
     target_branch         |-> mrs[iid].target_branch,
     title                 |-> mrs[iid].title,
     description           |-> mrs[iid].description,
     sha                   |-> mrs[iid].sha,
     prepared_at           |-> mrs[iid].prepared_at,
     detailed_merge_status |-> mrs[iid].detailed_merge_status,
     needs_save            |-> FALSE]

\* The backend's list for state=opened: the open requests, newest first
OpenRequests ==
    LET open == SelectSeq([i \in 1..Len(mrs) |-> i], LAMBDA i : mrs[i].state = "opened")
    IN  Reverse(open)

\* The backend's answer to "GET merge_requests?state=opened&page=..&per_page=..",
\* merge_request.py:286-290
Page(page) ==
    LET first == (page - 1) * PerPage + 1
        last  == IF page * PerPage < Len(OpenRequests)
                 THEN page * PerPage
                 ELSE Len(OpenRequests)
    IN  IF first > last THEN <<>> ELSE SubSeq(OpenRequests, first, last)

\* merge_request.py:284-302, "while True": the pages from page on, up to the
\* first empty one
pages_from_FirstOnly(page) ==
    IF Page(page) = <<>> THEN <<>> ELSE << Page(page) >>

RECURSIVE pages_from(_)
pages_from(page) ==
    IF Page(page) = <<>>
    THEN <<>>
    ELSE << Page(page) >> \o pages_from(page + 1)

\* merge_request._get_open_merge_requests, merge_request.py:279-303
get_open_merge_requests == pages_from(1)

\* merge_request.py:319-320, "for r in ...: for json_data in r.json()"
RECURSIVE Flatten(_)
Flatten(pages) ==
    IF pages = <<>> THEN <<>> ELSE Head(pages) \o Flatten(Tail(pages))

\* merge_request.get_all_merge_requests
get_all_merge_requests(branch) ==
    SelectSeq(Flatten(get_open_merge_requests),
              LAMBDA i : MatchesPattern(branch, mrs[i].source_branch))

\* main.py:175-178 and 182: the dict keeps the last listed request of each
\* source branch; .get(source_branch)
current_mr(source_branch) ==
    LET all  == get_all_merge_requests(final_branch)
        hits == { j \in 1..Len(all) : mrs[all[j]].source_branch = source_branch }
    IN  IF hits = {}
        THEN NoMR
        ELSE FromJson(all[CHOOSE j \in hits : \A h \in hits : h <= j])

\* main.py:156, "if len(commits) == 0"
no_local_commits_Never(commits) == FALSE

no_local_commits(commits) == Len(commits) = 0

\* main.py:160-171 calls utils.get_change_id for every commit, oldest first,
\* before the listing of 174-178: nobody catches its ValueError
missing_change_id_NewestOnly(commits) == raises_ValueError(MessageOf(commits[1].patch))

missing_change_id(commits) ==
    \E i \in DOMAIN commits : raises_ValueError(MessageOf(commits[i].patch))

\* main.py:148-186
get_commits_data ==
    LET plan == plan_of(oldest_first(iter_commits(local)))
    IN  [i \in 1..Len(plan) |->
            [plan[i] EXCEPT !.mr = current_mr(plan[i].source_branch)]]

-----------------------------------------------------------------------------
(* The state after start-up: nothing committed locally, no request, no     *)
(* branch but the final branch, whose head is the base (the empty history).*)

\* do_review before main.py:206 has assigned it, and once main.py:209 has
\* read it for the last time
Unasked == << "unasked" >>

BranchNames ==
    {final_branch} \cup
    { get_remote_branch_name(final_branch, ChangeIds[k]) : k \in DOMAIN ChangeIds }

Fresh ==
    /\ branches = [b \in BranchNames |-> IF b = final_branch THEN <<>> ELSE None]
    /\ mrs = <<>>
    /\ pipelines = {}
    /\ pc = "idle"
    /\ kind = "none"
    /\ commits_data = <<>>
    /\ idx = 0
    /\ new_mrs = <<>>
    /\ updated_mrs = <<>>
    /\ commits_to_pipeline_cancel = <<>>
    /\ log = <<>>
    /\ result = "none"
    /\ runs = 0
    /\ faults = 0
    /\ merged = 0
    /\ ran = None
    /\ synced = None
    /\ rerun = FALSE
    /\ mr_chain = <<>>
    /\ INSTANCES = <<>>
    /\ handed = <<>>
    /\ do_review = Unasked

Init ==
    /\ local = <<>>
    /\ Fresh

\* The first stack of a fresh remote, up to the names of its changes: change
\* i at position i, first revision.  Change ids and revisions that the remote
\* has never seen are interchangeable, so every other first stack behaves as
\* one of these.
Canonical(s) ==
    \A i \in DOMAIN s : s[i] = [cid |-> i, rev |-> 0] \/ s[i].cid = NoId

\* The user rewrites the local stack: commits, amends, reorders, inserts, drops.
EditLocal ==
    /\ UNCHANGED <<mr_chain, INSTANCES, handed, do_review>>
    /\ pc = "idle"
    /\ runs < MaxRuns
    /\ \E s \in Stacks :
          /\ s # local
          /\ Len(mrs) = 0 => Canonical(s)
          /\ local' = s
    /\ UNCHANGED <<branches, mrs, pipelines, pc, kind, commits_data, idx, new_mrs,
                   updated_mrs, commits_to_pipeline_cancel, log, result, runs,
                   faults, merged, ran, synced, rerun>>

\* A backend call either succeeds or is answered with an error.
Answers == IF faults < MaxFaults THEN {TRUE, FALSE} ELSE {TRUE}

Call(op, iid, source, target, refs) ==
    [op |-> op, iid |-> iid, source |-> source, target |-> target, refs |-> refs]

\* The GETs of _get_open_merge_requests for pages 1..n (the page number is
\* in the iid field)
list_calls(n) == [page \in 1..n |-> Call("list", page, <<>>, <<>>, <<>>)]

\* The page whose GET is answered with an error (raise_for_status,
\* merge_request.py:291-296), or 0: none
FailedPage ==
    {0} \cup (IF faults < MaxFaults THEN 1..(Len(get_open_merge_requests) + 1) ELSE {})

-----------------------------------------------------------------------------
(* create_merge_requests, main.py:189-288. *)

\* The command ends here: SystemExit, sys.exit, an exception nobody catches,
\* or a return.
Abort_Retry(why) ==
    /\ pc' = pc
    /\ result' = why

Abort(why) ==
    /\ pc' = "idle"
    /\ result' = why

\* main.py:192-221: the pending commits (none: SystemExit, main.py:156-157),
\* the plan (a commit without Change-Id: ValueError), the listing (which ends
\* the command when the backend answers with an error,
\* merge_request.py:291-296), the confirmation prompt
StartCreate ==
    /\ UNCHANGED <<mr_chain, INSTANCES, handed>>
    /\ do_review' = Unasked
    /\ pc = "idle"
    /\ runs < MaxRuns
    /\ runs' = runs + 1
    /\ kind' = "create"
    /\ ran' = local
    /\ rerun' = (synced = local)
    /\ synced' = None
    /\ new_mrs' = <<>>
    /\ updated_mrs' = <<>>
    /\ commits_to_pipeline_cancel' = <<>>
    /\ idx' = 1
    /\ merged' = 0
    /\ UNCHANGED <<local, branches, mrs, pipelines>>
    /\ IF no_local_commits(iter_commits(local))
       THEN /\ Abort("no_commits")
            /\ log' = <<>>
            /\ commits_data' = <<>>
            /\ UNCHANGED faults
       ELSE IF missing_change_id(iter_commits(local))
       THEN /\ Abort("no_change_id")
            /\ log' = <<>>
            /\ commits_data' = <<>>
            /\ UNCHANGED faults
       ELSE \E failed \in FailedPage :
                  IF failed = 0
                  THEN /\ log' = list_calls(Len(get_open_merge_requests) + 1)
                       /\ commits_data' = get_commits_data
                       /\ UNCHANGED faults
                       /\ pc' = "prompt"
                       /\ result' = "running"
                  ELSE /\ log' = list_calls(failed)
                       /\ Abort("list_failed")
                       /\ faults' = faults + 1
                       /\ commits_data' = <<>>

\* What the user may type at the prompt: the five answers main.py:207 knows,
\* and others (one of them begins with "n")
Inputs ==
    { <<>>, <<"y">>, <<"y", "e", "s">>, <<"n">>, <<"n", "o">>,
      <<"n", "a", "y">>, <<"Y">>, <<"q">> }

\* main.py:207, do_review in ["", "y", "yes", "n", "no"]
known_Any(answer) == TRUE

known(answer) ==
    answer \in { <<>>, <<"y">>, <<"y", "e", "s">>, <<"n">>, <<"n", "o">> }

\* str.startswith
startswith(str, prefix) == IsPrefix(prefix, str)

\* main.py:202-210, "if not global_vars.ci_mode": one answer is read; an
\* unknown one is asked again (207-208), one that starts with "n" returns
\* (209-210), any other goes on
Prompt ==
    /\ UNCHANGED <<mr_chain, INSTANCES, handed>>
    /\ pc = "prompt"
    /\ \E answer \in Inputs :
          /\ do_review' = answer
          /\ IF ~known(answer)
             THEN UNCHANGED <<pc, result>>
             ELSE IF startswith(answer, <<"n">>)
             THEN Abort("declined")
             ELSE pc' = "create" /\ UNCHANGED result
    /\ UNCHANGED <<local, branches, mrs, pipelines, kind, commits_data, idx, new_mrs,
                   updated_mrs, commits_to_pipeline_cancel, log, runs, faults,
                   merged, ran, synced, rerun>>

\* MergeRequest.__init__ and create(), merge_request.py:25-45 and 78-98
NewRequest(c, iid) ==
    LET td == get_msg_title_description(MessageOf(c.commit.patch))
    IN  [iid                   |-> iid,
         source_branch         |-> c.source_branch,
         target_branch         |-> c.target_branch,
         title                 |-> td.title,
         description           |-> td.desc,
         sha                   |-> None,
         prepared_at           |-> FALSE,
         detailed_merge_status |-> "none",
         needs_save            |-> FALSE]

\* The backend's record of a request it was asked to create.
Created(mr) ==
    [source_branch         |-> mr.source_branch,
     target_branch         |-> mr.target_branch,
     title                 |-> mr.title,
     description           |-> mr.description,
     state                 |-> "opened",
     sha                   |-> None,
     prepared_at           |-> FALSE,
     detailed_merge_status |-> "unchecked"]

\* main.py:225, "if not c.mr"
needs_create_Never(c) == FALSE

needs_create(c) == c.mr.iid = 0

\* The phases of create_merge_requests in the order of main.py:223-267.
phase_after_PushFirst(phase) ==
    CASE phase = "create"    -> "push"
      [] phase = "push"      -> "update"
      [] phase = "update"    -> "cancel"
      [] phase = "cancel"    -> "stabilize"
      [] phase = "stabilize" -> "report"

phase_after_CancelFirst(phase) ==
    CASE phase = "create"    -> "update"
      [] phase = "update"    -> "cancel"
      [] phase = "cancel"    -> "push"
      [] phase = "push"      -> "stabilize"
      [] phase = "stabilize" -> "report"

phase_after(phase) ==
    CASE phase = "create"    -> "update"
      [] phase = "update"    -> "push"
      [] phase = "push"      -> "cancel"
      [] phase = "cancel"    -> "stabilize"
      [] phase = "stabilize" -> "report"

\* The loop "for c in commits_data" moves on, or the phase ends.
Advance ==
    IF idx < Len(commits_data)
    THEN idx' = idx + 1 /\ pc' = pc
    ELSE idx' = 1 /\ pc' = phase_after(pc)

\* main.py:224-237, one iteration of "Create missing MRs"
CreateStep ==
    /\ UNCHANGED <<mr_chain, INSTANCES, handed>>
    /\ do_review' = Unasked
    /\ pc = "create"
    /\ LET c == commits_data[idx]
           mr == NewRequest(c, Len(mrs) + 1)
       IN  IF ~needs_create(c)
           THEN /\ Advance
                /\ UNCHANGED <<mrs, commits_data, new_mrs, log, result, faults>>
           ELSE \E ok \in Answers :
                  /\ log' = Append(log, Call("create", 0, mr.source_branch,
                                             mr.target_branch, <<>>))
                  /\ IF ok
                     THEN /\ mrs' = Append(mrs, Created(mr))
                          /\ commits_data' = [commits_data EXCEPT ![idx].mr = mr]
                          /\ new_mrs' = Append(new_mrs, mr.iid)
                          /\ Advance
                          /\ UNCHANGED <<result, faults>>
                     ELSE /\ Abort("create_failed")
                          /\ faults' = faults + 1
                          /\ UNCHANGED <<mrs, commits_data, new_mrs, idx>>
    /\ UNCHANGED <<local, branches, pipelines, kind, updated_mrs,
                   commits_to_pipeline_cancel, runs, merged, ran, synced, rerun>>

\* main.generate_augmented_mr_description, main.py:128-145, for entry i
generate_augmented_mr_description_Others(plan, i) ==
    LET td     == get_msg_title_description(MessageOf(plan[i].commit.patch))
        others == SelectSeq([j \in 1..Len(plan) |-> j], LAMBDA j : j # i)
    IN  IF Len(plan) <= 1
        THEN td
        ELSE [title |-> td.title,
              desc  |-> [body    |-> td.desc.body,
                         related |-> Reverse([k \in 1..Len(others) |->
                                               [iid |-> plan[others[k]].mr.iid,
                                                this |-> FALSE]]),
                         final   |-> plan[1].target_branch,
                         ws      |-> TRUE]]

generate_augmented_mr_description(plan, i) ==
    LET td == get_msg_title_description(MessageOf(plan[i].commit.patch))
    IN  IF Len(plan) <= 1
        THEN td
        ELSE [title |-> td.title,
              desc  |-> [body    |-> td.desc.body,
                         related |-> Reverse([j \in 1..Len(plan) |->
                                               [iid |-> plan[j].mr.iid, this |-> (j = i)]]),
                         final   |-> plan[1].target_branch,
                         ws      |-> TRUE]]

\* MergeRequest.set_target_branch, merge_request.py:253-256
set_target_branch(mr, target_branch) ==
    IF mr.target_branch # target_branch
    THEN [mr EXCEPT !.target_branch = target_branch, !.needs_save = TRUE]
    ELSE mr

\* MergeRequest.set_title, merge_request.py:258-261
set_title(mr, title) ==
    IF mr.title # title
    THEN [mr EXCEPT !.title = title, !.needs_save = TRUE]
    ELSE mr

\* MergeRequest.set_desc, merge_request.py:263-266
set_desc(mr, desc) ==
    IF Strip(mr.description) # Strip(desc)
    THEN [mr EXCEPT !.description = desc, !.needs_save = TRUE]
    ELSE mr

\* MergeRequest.save, merge_request.py:268-276: what it returns, the calls it
\* issues (one PUT by MergeRequest.update, or none), and the object afterwards
save_Always(mr) ==
    [saved |-> TRUE,
     calls |-> << Call("update", mr.iid, mr.source_branch, mr.target_branch, <<>>) >>,
     mr    |-> [mr EXCEPT !.needs_save = FALSE]]

save(mr) ==
    [saved |-> mr.needs_save,
     calls |-> IF mr.needs_save
               THEN << Call("update", mr.iid, mr.source_branch, mr.target_branch, <<>>) >>
               ELSE <<>>,
     mr    |-> [mr EXCEPT !.needs_save = FALSE]]

\* The backend's record after a PUT of the engine's copy, merge_request.py:115-123
Updated_Closes(rec, mr) ==
    [rec EXCEPT !.source_branch = mr.source_branch,
                !.target_branch = mr.target_branch,
                !.title = mr.title,
                !.description = mr.description,
                !.state = "closed"]

Updated(rec, mr) ==
    [rec EXCEPT !.source_branch = mr.source_branch,
                !.target_branch = mr.target_branch,
                !.title = mr.title,
                !.description = mr.description]

\* main.py:250, which requests are reported as updated
marks_updated_IgnoresNew(saved, mr, c) == saved \/ mr.sha # c.commit.hexsha

marks_updated(saved, mr, c) ==
    (saved \/ mr.sha # c.commit.hexsha) /\ ~(\E k \in DOMAIN new_mrs : new_mrs[k] = mr.iid)

\* main.py:242-252, one iteration of the update loop, with MergeRequest.save
\* (merge_request.py:268-276) and MergeRequest.update (100-127)
UpdateStep ==
    /\ UNCHANGED <<mr_chain, INSTANCES, handed, do_review>>
    /\ pc = "update"
    /\ LET c   == commits_data[idx]
           td  == generate_augmented_mr_description(commits_data, idx)
           mr1 == set_desc(set_title(set_target_branch(c.mr, c.target_branch),
                                     td.title), td.desc)
           mr2 == save(mr1).mr
           mark(saved) ==
               IF marks_updated(saved, mr2, c)
               THEN /\ updated_mrs' = Append(updated_mrs, mr2.iid)
                    /\ commits_to_pipeline_cancel' =
                           Append(commits_to_pipeline_cancel, c.commit)
               ELSE UNCHANGED <<updated_mrs, commits_to_pipeline_cancel>>
       IN  IF save(mr1).calls # <<>>
           THEN \E ok \in Answers :
                  /\ log' = log \o save(mr1).calls
                  /\ IF ok
                     THEN /\ mrs' = [mrs EXCEPT ![mr1.iid] = Updated(@, mr1)]
                          /\ commits_data' = [commits_data EXCEPT ![idx].mr = mr2]
                          /\ mark(save(mr1).saved)
                          /\ Advance
                          /\ UNCHANGED <<result, faults>>
                     ELSE /\ Abort("update_failed")
                          /\ faults' = faults + 1
                          /\ UNCHANGED <<mrs, commits_data, idx, updated_mrs,
                                         commits_to_pipeline_cancel>>
           ELSE /\ commits_data' = [commits_data EXCEPT ![idx].mr = mr2]
                /\ mark(save(mr1).saved)
                /\ Advance
                /\ UNCHANGED <<mrs, log, result, faults>>
    /\ UNCHANGED <<local, branches, pipelines, kind, new_mrs, runs, merged, ran,
                   synced, rerun>>

\* main.py:255-258, one refspec per entry of the plan
refs_to_push_TopOnly ==
    << [sha |-> commits_data[Len(commits_data)].commit.hexsha,
        branch |-> commits_data[Len(commits_data)].source_branch] >>

refs_to_push ==
    [i \in 1..Len(commits_data) |->
        [sha |-> commits_data[i].commit.hexsha, branch |-> commits_data[i].source_branch]]

\* The heads after a forced push of refs, applied in order.
RECURSIVE Pushed(_, _)
Pushed(heads, refs) ==
    IF refs = <<>>
    THEN heads
    ELSE Pushed([heads EXCEPT ![Head(refs).branch] = Head(refs).sha], Tail(refs))

\* main.py:259-260, remote.push(refspec=refs_to_push, force=True); the backend
\* starts a pipeline for every head the push moved.
Push ==
    /\ UNCHANGED <<mr_chain, INSTANCES, handed, do_review>>
    /\ pc = "push"
    /\ log' = Append(log, Call("push", 0, <<>>, <<>>, refs_to_push))
    /\ branches' = Pushed(branches, refs_to_push)
    /\ pipelines' = pipelines \cup
           { [sha |-> branches'[b], status |-> "running"] :
               b \in { n \in BranchNames : branches'[n] # branches[n] } }
    /\ pc' = phase_after(pc)
    /\ idx' = 1
    /\ UNCHANGED <<local, mrs, kind, commits_data, new_mrs, updated_mrs,
                   commits_to_pipeline_cancel, result, runs, faults, merged, ran,
                   synced, rerun>>

\* pipeline.get_pipelines_by_change_id(repo)[change_id] as main.py:88-92 uses
\* it: the running pipelines whose sha's commit message carries change_id.
pipelines_by_change_id(change_id) ==
    { p \in pipelines :
        /\ p.status = "running"
        /\ get_change_id(MessageOf(p.sha[Len(p.sha)])) = change_id }

\* main.cancel_prev_pipelines, main.py:82-97: the pipelines it cancels
prev_pipelines(commits) ==
    { p \in pipelines :
        \E k \in DOMAIN commits :
            /\ p \in pipelines_by_change_id(get_change_id(MessageOf(commits[k].patch)))
            /\ p.sha # commits[k].hexsha }

\* main.py:262-263
CancelPipelines ==
    /\ UNCHANGED <<mr_chain, INSTANCES, handed, do_review>>
    /\ pc = "cancel"
    /\ LET gone == prev_pipelines(commits_to_pipeline_cancel)
       IN  /\ pipelines' = (pipelines \ gone) \cup
                           { [p EXCEPT !.status = "canceled"] : p \in gone }
           /\ log' = IF gone = {}
                     THEN log
                     ELSE Append(log, Call("cancel", Cardinality(gone), <<>>, <<>>, <<>>))
    /\ pc' = phase_after(pc)
    /\ idx' = 1
    /\ UNCHANGED <<local, branches, mrs, kind, commits_data, new_mrs, updated_mrs,
                   commits_to_pipeline_cancel, result, runs, faults, merged, ran,
                   synced, rerun>>

\* MergeRequest.refresh, merge_request.py:230-239: every field of the
\* backend's answer overwrites the engine's copy
refresh_Stale(mr) == mr

refresh(mr) == [FromJson(mr.iid) EXCEPT !.needs_save = mr.needs_save]

\* merge_request.py:249
is_stable_PreparedOnly(mr, c) == mr.prepared_at

is_stable(mr, c) == mr.prepared_at /\ mr.sha = c.commit.hexsha

\* main.py:265-267 with MergeRequest.wait_until_stable, merge_request.py:241-251:
\* one poll of the request of entry idx
Stabilize ==
    /\ UNCHANGED <<mr_chain, INSTANCES, handed, do_review>>
    /\ pc = "stabilize"
    /\ \E ok \in Answers :
          /\ IF ok
             THEN LET mr == refresh(commits_data[idx].mr)
                  IN  /\ commits_data' = [commits_data EXCEPT ![idx].mr = mr]
                      /\ IF is_stable(mr, commits_data[idx])
                         THEN Advance
                         ELSE UNCHANGED <<pc, idx>>
                      /\ UNCHANGED <<result, faults>>
             ELSE /\ Abort("poll_failed")
                  /\ faults' = faults + 1
                  /\ UNCHANGED <<commits_data, idx>>
    /\ UNCHANGED <<local, branches, mrs, pipelines, kind, new_mrs, updated_mrs,
                   commits_to_pipeline_cancel, log, runs, merged, ran, synced, rerun>>

\* main.py:269-288: the outcome is printed and the command returns
Report ==
    /\ UNCHANGED <<mr_chain, INSTANCES, handed, do_review>>
    /\ pc = "report"
    /\ pc' = "idle"
    /\ result' = "ok"
    /\ synced' = ran
    /\ UNCHANGED <<local, branches, mrs, pipelines, kind, commits_data, idx, new_mrs,
                   updated_mrs, commits_to_pipeline_cancel, log, runs, faults,
                   merged, ran, rerun>>

-----------------------------------------------------------------------------
(* The review backend. *)

\* The backend works on its requests in the background.  The engine sees this
\* work only when it polls a request (MergeRequest.refresh), so the work on a
\* request is taken at the latest: while the engine polls that request.
Polled(iid) == pc = "stabilize" /\ commits_data[idx].mr.iid = iid

\* The backend finishes preparing a request it was asked to create.
BackendPrepare(iid) ==
    /\ UNCHANGED <<mr_chain, INSTANCES, handed, do_review>>
    /\ Polled(iid)
    /\ mrs[iid].state = "opened"
    /\ ~mrs[iid].prepared_at
    /\ mrs' = [mrs EXCEPT ![iid].prepared_at = TRUE]
    /\ synced' = None
    /\ UNCHANGED <<local, branches, pipelines, pc, kind, commits_data, idx, new_mrs,
                   updated_mrs, commits_to_pipeline_cancel, log, result, runs,
                   faults, merged, ran, rerun>>

\* The backend ingests a push: the request records the head of its source
\* branch, and its mergeability is to be checked again.
BackendIngest(iid) ==
    /\ UNCHANGED <<mr_chain, INSTANCES, handed, do_review>>
    /\ Polled(iid)
    /\ mrs[iid].state = "opened"
    /\ branches[mrs[iid].source_branch] # None
    /\ mrs[iid].sha # branches[mrs[iid].source_branch]
    /\ mrs' = [mrs EXCEPT ![iid].sha = branches[mrs[iid].source_branch],
                          ![iid].detailed_merge_status = "unchecked"]
    /\ synced' = None
    /\ UNCHANGED <<local, branches, pipelines, pc, kind, commits_data, idx, new_mrs,
                   updated_mrs, commits_to_pipeline_cancel, log, result, runs,
                   faults, merged, ran, rerun>>

\* gitlab_gerrit_review/main.py:133-135: a request whose source branch has
\* every commit in its target branch is merged by the backend on its own.
auto_mergeable(iid) ==
    /\ mrs[iid].state = "opened"
    /\ branches[mrs[iid].source_branch] # None
    /\ branches[mrs[iid].target_branch] # None
    /\ IsPrefix(branches[mrs[iid].source_branch], branches[mrs[iid].target_branch])

BackendAutoMerge(iid) ==
    /\ UNCHANGED <<mr_chain, INSTANCES, handed, do_review>>
    /\ auto_mergeable(iid)
    /\ mrs' = [mrs EXCEPT ![iid].state = "merged"]
    /\ synced' = None
    /\ UNCHANGED <<local, branches, pipelines, pc, kind, commits_data, idx, new_mrs,
                   updated_mrs, commits_to_pipeline_cancel, log, result, runs,
                   faults, merged, ran, rerun>>

\* A reviewer approves an ingested request: it becomes mergeable
\* (unit_tests/merge_request_test.py:134-137).  Only merge_merge_requests
\* reads mergeability, so approvals are taken at the latest: when the merge
\* command has been invoked and has not read the backend yet.
Approve(iid) ==
    /\ UNCHANGED <<mr_chain, INSTANCES, handed, do_review>>
    /\ pc = "merge"
    /\ mrs[iid].state = "opened"
    /\ mrs[iid].prepared_at
    /\ mrs[iid].sha = branches[mrs[iid].source_branch]
    /\ mrs[iid].detailed_merge_status # "mergeable"
    /\ mrs' = [mrs EXCEPT ![iid].detailed_merge_status = "mergeable"]
    /\ synced' = None
    /\ UNCHANGED <<local, branches, pipelines, pc, kind, commits_data, idx, new_mrs,
                   updated_mrs, commits_to_pipeline_cancel, log, result, runs,
                   faults, merged, ran, rerun>>

-----------------------------------------------------------------------------
(* merge_merge_requests, main.py:21-79. *)

\* main.py:31-41: the requests of the local commits, or none when a commit
\* has no open request
linked_requests(plan) ==
    IF \E i \in DOMAIN plan : plan[i].mr.iid = 0
    THEN <<>>
    ELSE [i \in DOMAIN plan |-> plan[i].mr]

\* main.py:359-360, the user runs the tool with --merge
InvokeMerge ==
    /\ UNCHANGED <<mr_chain, INSTANCES, handed, do_review>>
    /\ pc = "idle"
    /\ runs < MaxRuns
    /\ pc' = "merge"
    /\ UNCHANGED <<local, branches, mrs, pipelines, kind, commits_data, idx, new_mrs,
                   updated_mrs, commits_to_pipeline_cancel, log, result, runs,
                   faults, merged, ran, synced, rerun>>

\* main.py:21-43: the plan, the listing, and the requests of the commits
StartMerge ==
    /\ UNCHANGED <<mr_chain, INSTANCES, handed, do_review>>
    /\ pc = "merge"
    /\ runs' = runs + 1
    /\ kind' = "merge"
    /\ ran' = local
    /\ rerun' = FALSE
    /\ new_mrs' = <<>>
    /\ updated_mrs' = <<>>
    /\ commits_to_pipeline_cancel' = <<>>
    /\ idx' = 1
    /\ merged' = 0
    /\ UNCHANGED <<local, branches, mrs, pipelines, synced>>
    /\ IF no_local_commits(iter_commits(local))
       THEN /\ Abort("no_commits")
            /\ log' = <<>>
            /\ commits_data' = <<>>
            /\ UNCHANGED faults
       ELSE IF missing_change_id(iter_commits(local))
       THEN /\ Abort("no_change_id")
            /\ log' = <<>>
            /\ commits_data' = <<>>
            /\ UNCHANGED faults
       ELSE \E failed \in FailedPage :
                  IF failed = 0
                  THEN /\ log' = list_calls(Len(get_open_merge_requests) + 1)
                       /\ commits_data' = get_commits_data
                       /\ UNCHANGED faults
                       /\ IF linked_requests(get_commits_data) = <<>>
                          THEN Abort("returned")
                          ELSE pc' = "refresh" /\ result' = "running"
                  ELSE /\ log' = list_calls(failed)
                       /\ Abort("list_failed")
                       /\ faults' = faults + 1
                       /\ commits_data' = <<>>
\* main.py:43-79 run only when every local commit is linked to a request.
\* get_all_merge_requests lists no request whose source branch
\* get_remote_branch_name has made, so no state of this model gets there.

-----------------------------------------------------------------------------

Next ==
    \/ EditLocal
    \/ StartCreate
    \/ Prompt
    \/ CreateStep
    \/ UpdateStep
    \/ Push
    \/ CancelPipelines
    \/ Stabilize
    \/ Report
    \/ InvokeMerge
    \/ StartMerge
    \/ \E iid \in DOMAIN mrs : BackendPrepare(iid)
    \/ \E iid \in DOMAIN mrs : BackendIngest(iid)
    \/ \E iid \in DOMAIN mrs : BackendAutoMerge(iid)
    \/ \E iid \in DOMAIN mrs : Approve(iid)

Spec == Init /\ [][Next]_vars

-----------------------------------------------------------------------------
(* The plan of stacks in which two commits may carry Change-Ids that differ *)
(* only outside the characters get_remote_branch_name keeps: the first step *)
(* of create_merge_requests, from every such stack on a fresh remote.       *)

PlanPatches == Patches \cup {[cid |-> Twin, rev |-> 0]}

PlanStacks ==
    UNION { { s \in [1..n -> PlanPatches] :
                \A i, j \in 1..n : i # j => s[i].cid # s[j].cid } :
            n \in 0..MaxCommits }

PlanInit ==
    /\ local \in PlanStacks
    /\ Fresh

PlanSpec == PlanInit /\ [][StartCreate]_vars

-----------------------------------------------------------------------------
(* merge_merge_requests from main.py:43 on: the chain, the mergeable prefix *)
(* and the merges, started from the lists of requests main.py:31-41 can     *)
(* hand over: one open request per local commit, in the order of the local  *)
(* commits, each with the target branch and the merge status the backend    *)
(* records for it.                                                          *)

\* merge_request.py:339-346, get_merge_request_chain_inner
get_merge_request_chain_inner_RootOnly(mrs_dict, root) == << root >>

RECURSIVE get_merge_request_chain_inner(_, _)
get_merge_request_chain_inner(mrs_dict, root) ==
    IF root.source_branch \notin DOMAIN mrs_dict
    THEN << root >>
    ELSE << root >> \o
         get_merge_request_chain_inner(mrs_dict, mrs_dict[root.source_branch])

\* merge_request.py:348-351, "for root in roots: mr_chain.extend(...)"
RECURSIVE chains_of(_, _)
chains_of(mrs_dict, roots) ==
    IF roots = <<>>
    THEN <<>>
    ELSE get_merge_request_chain_inner(mrs_dict, Head(roots)) \o
         chains_of(mrs_dict, Tail(roots))

\* merge_request.get_merge_request_chain, merge_request.py:328-351; the dict
\* comprehension keeps, for each target branch, the last request of the list
get_merge_request_chain_Input(ms) == ms

get_merge_request_chain(ms) ==
    LET source_branches == { ms[i].source_branch : i \in DOMAIN ms }
        roots == SelectSeq(ms, LAMBDA mr : mr.target_branch \notin source_branches)
        last(t) == CHOOSE i \in DOMAIN ms :
                       /\ ms[i].target_branch = t
                       /\ \A j \in DOMAIN ms : ms[j].target_branch = t => j <= i
        mrs_dict == [t \in { ms[i].target_branch : i \in DOMAIN ms } |-> ms[last(t)]]
    IN  IF Len(ms) = 0 THEN <<>> ELSE chains_of(mrs_dict, roots)

\* MergeRequest.mergeable, merge_request.py:56-58
mergeable(mr) == mr.detailed_merge_status = "mergeable"

\* main.py:52-57: the requests of the chain up to the first that is not mergeable
mergeables(chain) ==
    LET stop == { k \in DOMAIN chain : ~mergeable(chain[k]) }
        n    == IF stop = {}
                THEN Len(chain)
                ELSE (CHOOSE k \in stop : \A h \in stop : k <= h) - 1
    IN  SubSeq(chain, 1, n)

\* Local stacks whose commits all have a request: first revisions of the
\* changes, in any order.
ChainStacks ==
    { s \in Stacks : \A i \in DOMAIN s : s[i].cid \in DOMAIN ChangeIds /\ s[i].rev = 0 }

\* The state at main.py:43: request i is the open request of the i-th local
\* commit; its target branch is any branch but its own source branch.
ChainInit ==
    /\ local \in ChainStacks
    /\ branches = Pushed([b \in BranchNames |-> IF b = final_branch THEN <<>> ELSE None],
                         [i \in 1..Len(local) |->
                             [sha |-> ShaOf(local, i), branch |-> SourceOf(local[i])]])
    /\ \E targets \in [1..Len(local) -> BranchNames],
          status \in [1..Len(local) -> {"mergeable", "unchecked"}] :
          LET plan == plan_of(oldest_first(iter_commits(local)))
          IN  /\ \A i \in 1..Len(local) : targets[i] # plan[i].source_branch
              /\ mrs = [i \in 1..Len(local) |->
                          [Created(NewRequest(plan[i], i)) EXCEPT
                              !.target_branch = targets[i],
                              !.sha = plan[i].commit.hexsha,
                              !.prepared_at = TRUE,
                              !.detailed_merge_status = status[i]]]
              /\ commits_data = [i \in 1..Len(local) |->
                                   [plan[i] EXCEPT !.mr = FromJson(i)]]
    /\ pipelines = {}
    /\ pc = "chain"
    /\ kind = "merge"
    /\ idx = 1
    /\ new_mrs = <<>>
    /\ updated_mrs = <<>>
    /\ commits_to_pipeline_cancel = <<>>
    /\ log = list_calls(Len(get_open_merge_requests) + 1)
    /\ result = "running"
    /\ runs = 1
    /\ faults = 0
    /\ merged = 0
    /\ ran = local
    /\ synced = None
    /\ rerun = FALSE
    /\ mr_chain = <<>>
    /\ INSTANCES = <<>>
    /\ handed = <<>>
    /\ do_review = Unasked

\* main.py:43-63: the chain, a refresh of each of its requests (which ends the
\* command when the backend answers with an error, merge_request.py:232-234),
\* the mergeable prefix; "return 0" when it is empty
BuildChain ==
    /\ pc = "chain"
    /\ \E ok \in Answers :
          IF ok
          THEN LET chain == get_merge_request_chain(linked_requests(commits_data))
                   fresh == [k \in DOMAIN chain |-> refresh(chain[k])]
               IN  /\ mr_chain' = fresh
                   /\ IF Len(mergeables(fresh)) = 0
                      THEN Abort("returned")
                      ELSE pc' = "merging" /\ result' = "running"
                   /\ UNCHANGED faults
          ELSE /\ Abort("poll_failed")
               /\ faults' = faults + 1
               /\ UNCHANGED mr_chain
    /\ UNCHANGED <<local, branches, mrs, pipelines, kind, commits_data, idx, new_mrs,
                   updated_mrs, commits_to_pipeline_cancel, log, runs, merged, ran,
                   synced, rerun, INSTANCES, handed, do_review>>

\* main.py:66-79, one iteration of "for mr in mergeables": the update of the
\* target branch (an error of the backend ends the command,
\* merge_request.py:122) and the merge, which MergeRequest.merge
\* (merge_request.py:136-145) repeats until the backend accepts it; after the
\* last one the command returns len(mergeables)
MergeStep ==
    /\ pc = "merging"
    /\ LET todo == mergeables(mr_chain)
           mr   == todo[idx]
           put  == Call("update", mr.iid, mr.source_branch, final_branch, <<>>)
       IN  \E ok \in Answers :
             IF ok
             THEN /\ log' = log \o << put, Call("merge", mr.iid, mr.source_branch,
                                                final_branch, <<>>) >>
                  /\ mrs' = [mrs EXCEPT ![mr.iid].target_branch = final_branch,
                                        ![mr.iid].state = "merged"]
                  /\ IF idx < Len(todo)
                     THEN idx' = idx + 1 /\ UNCHANGED <<pc, result, merged>>
                     ELSE /\ Abort("merged")
                          /\ idx' = 1
                          /\ merged' = Len(todo)
                  /\ UNCHANGED faults
             ELSE /\ log' = Append(log, put)
                  /\ Abort("update_failed")
                  /\ faults' = faults + 1
                  /\ UNCHANGED <<mrs, idx, merged>>
    /\ UNCHANGED <<local, branches, pipelines, kind, commits_data, new_mrs,
                   updated_mrs, commits_to_pipeline_cancel, runs, ran, synced,
                   rerun, mr_chain, INSTANCES, handed, do_review>>

ChainNext == BuildChain \/ MergeStep

ChainSpec == ChainInit /\ [][ChainNext]_vars

-----------------------------------------------------------------------------
(* git_credentials: the registry of credential stores, one per host. *)

Hosts == {"https://gitlab.com", "https://gitlab.example.com", "https://git.example.org"}

\* GitCredentialStore(host), git_credentials.py:31-38: a new object, the n-th
\* the process has built
GitCredentialStore(host, n) ==
    [host |-> host, id |-> n, git_credentials_fetched |-> FALSE]

\* dict.setdefault(k, v): v is stored only when d has no k; d[k] is returned
setdefault_Overwrite(d, k, v) == (k :> v) @@ d

setdefault(d, k, v) == d @@ (k :> v)

\* git_credentials.instance, git_credentials.py:16-22: the argument of
\* setdefault is evaluated first, so every call builds a store
instance(host) ==
    /\ Len(handed) < MaxCalls
    /\ INSTANCES' = setdefault(INSTANCES, host,
                               GitCredentialStore(host, Len(handed) + 1))
    /\ handed' = Append(handed, [host |-> host, store |-> INSTANCES'[host]])
    /\ UNCHANGED <<local, branches, mrs, pipelines, pc, kind, commits_data, idx,
                   new_mrs, updated_mrs, commits_to_pipeline_cancel, log, result,
                   runs, faults, merged, ran, synced, rerun, mr_chain, do_review>>

CredNext == \E host \in Hosts : instance(host)

CredSpec == Init /\ [][CredNext]_vars

-----------------------------------------------------------------------------
(* Properties. *)

\* A create run has returned after reporting its outcome.
Completed == pc = "idle" /\ kind = "create" /\ result = "ok"

Calls(op) == SelectSeq(log, LAMBDA c : c.op = op)

C2_ChainOrdering ==
    Len(commits_data) > 0 =>
        /\ commits_data[1].target_branch = final_branch
        /\ \A i \in 2..Len(commits_data) :
              commits_data[i].target_branch = commits_data[i - 1].source_branch
        /\ Len(commits_data) = Len(ran)
        /\ \A i \in 1..Len(commits_data) :
              commits_data[i].commit.hexsha = ShaOf(ran, i)

C2_Witness ==
    /\ Len(commits_data) = 3
    /\ commits_data[3].target_branch = commits_data[2].source_branch
    /\ commits_data[2].target_branch # final_branch

\* C3: no update call of a run is issued after the run's push.
C3_UpdatesBeforePush ==
    \A i, j \in DOMAIN log :
        (i < j /\ log[i].op = "push") => log[j].op # "update"

C3_Witness ==
    /\ Len(Calls("update")) > 0
    /\ Len(Calls("push")) > 0

Range(f) == {f[i] : i \in DOMAIN f}

\* C4: from the first create or update call of a run to the end of its push,
\* no request of the plan is merged by the backend on its own or in a state
\* where the backend would do so.
C4_NoAutoMerge ==
    pc \in {"create", "update", "push"} =>
        \A i \in DOMAIN commits_data :
            commits_data[i].mr.iid # 0 =>
                /\ mrs[commits_data[i].mr.iid].state # "merged"
                /\ ~auto_mergeable(commits_data[i].mr.iid)

\* C5: every create call carries the source and the target branch of an entry
\* of the plan, no create call follows an update call, every entry whose
\* request is new has its create call, and when the update phase runs every
\* entry is linked to a request with an iid.
C5_CreatesBeforeUpdates ==
    /\ \A k \in DOMAIN log :
          log[k].op = "create" =>
              \E i \in DOMAIN commits_data :
                  /\ log[k].source = commits_data[i].source_branch
                  /\ log[k].target = commits_data[i].target_branch
    /\ \A j, k \in DOMAIN log :
          (j < k /\ log[j].op = "update") => log[k].op # "create"
    /\ pc = "update" =>
          \A i \in DOMAIN commits_data :
              /\ commits_data[i].mr.iid \in DOMAIN mrs
              /\ commits_data[i].mr.iid \in Range(new_mrs) =>
                    \E k \in DOMAIN log :
                        /\ log[k].op = "create"
                        /\ log[k].source = commits_data[i].source_branch
                        /\ log[k].target = commits_data[i].target_branch

\* The update phase starts after three create calls.
C5_Witness ==
    /\ pc = "update"
    /\ idx = 1
    /\ Len(Calls("create")) = 3
    /\ Len(Calls("update")) = 0

C7_Idempotent ==
    (kind = "create" /\ rerun) =>
        /\ Len(Calls("create")) = 0
        /\ Len(Calls("update")) = 0
        /\ new_mrs = <<>>
        /\ updated_mrs = <<>>

\* C8: an entry whose source branch is the source branch of a request open
\* before the run is linked to that request and gets no create call, and no
\* two open requests have the same source branch.
C8_LinksExisting ==
    /\ \A a, b \in DOMAIN mrs :
          (a # b /\ mrs[a].state = "opened" /\ mrs[b].state = "opened")
              => mrs[a].source_branch # mrs[b].source_branch
    /\ pc = "create" =>
          \A i \in DOMAIN commits_data :
              (\E iid \in DOMAIN mrs \ Range(new_mrs) :
                  /\ mrs[iid].state = "opened"
                  /\ mrs[iid].source_branch = commits_data[i].source_branch)
              => /\ commits_data[i].mr.iid # 0
                 /\ commits_data[i].mr.iid \notin Range(new_mrs)

\* The merge command has returned.
MergeReturned == pc = "idle" /\ kind = "merge" /\ result = "returned"

\* The i-th local commit has a mergeable request: open, or merged by a call
\* of this run.
HasMergeable(i) ==
    \E iid \in DOMAIN mrs :
        /\ mrs[iid].source_branch = SourceOf(ran[i])
        /\ mrs[iid].detailed_merge_status = "mergeable"
        /\ \/ mrs[iid].state = "opened"
           \/ \E k \in DOMAIN log : log[k].op = "merge" /\ log[k].iid = iid

\* The length of the maximal mergeable prefix of the chain, from the root.
MergeablePrefix ==
    CHOOSE k \in 0..Len(ran) :
        /\ \A i \in 1..k : HasMergeable(i)
        /\ k < Len(ran) => ~HasMergeable(k + 1)

\* C9: the merge command merges the requests of the maximal mergeable prefix,
\* root first, and issues no update and no merge call for a later request.
C9_MergesPrefix ==
    MergeReturned =>
        /\ Len(Calls("merge")) = MergeablePrefix
        /\ Len(Calls("update")) = MergeablePrefix
        /\ \A j \in 1..Len(Calls("merge")) :
              /\ j <= Len(ran)
              /\ mrs[Calls("merge")[j].iid].source_branch = SourceOf(ran[j])

\* C10: the merge command returns the length of the maximal mergeable prefix.
C10_ReturnsPrefixLength ==
    MergeReturned => merged = MergeablePrefix

\* The calls of the run that change or merge a request, in order.
MutatingCalls == SelectSeq(log, LAMBDA c : c.op \in {"update", "merge"})

\* An open request for the i-th local commit.
OpenFor(i) ==
    { iid \in DOMAIN mrs :
        /\ mrs[iid].state = "opened"
        /\ mrs[iid].source_branch = SourceOf(ran[i]) }

\* C11: for the requests of the mergeable prefix the merge command issues
\* update(0), merge(0), update(1), merge(1), ...: request i is retargeted to
\* the final branch, then merged, before request i+1 is touched.
C11_UpdateThenMerge ==
    MergeReturned =>
        /\ Len(MutatingCalls) = 2 * MergeablePrefix
        /\ \A i \in 1..MergeablePrefix :
              /\ MutatingCalls[2 * i - 1].op = "update"
              /\ MutatingCalls[2 * i - 1].target = final_branch
              /\ MutatingCalls[2 * i - 1].source = SourceOf(ran[i])
              /\ MutatingCalls[2 * i].op = "merge"
              /\ MutatingCalls[2 * i].iid = MutatingCalls[2 * i - 1].iid

C13_MergesLocalCommitsOnly ==
    MergeReturned =>
        /\ \A k \in DOMAIN MutatingCalls :
              \E i \in 1..Len(ran) :
                  mrs[MutatingCalls[k].iid].source_branch = SourceOf(ran[i])
        /\ (\E i \in 1..Len(ran) : OpenFor(i) = {} /\ ~HasMergeable(i)) =>
              merged = 0 /\ Len(MutatingCalls) = 0
        /\ ( /\ MergeablePrefix = Len(ran)
             /\ \E iid \in DOMAIN mrs :
                   /\ mrs[iid].state = "opened"
                   /\ \A i \in 1..Len(ran) : mrs[iid].source_branch # SourceOf(ran[i]) )
           => Len(Calls("merge")) = Len(ran)

\* The requests open before the run with the source branch of entry i.
PreExisting(i) ==
    { iid \in DOMAIN mrs \ Range(new_mrs) :
        /\ mrs[iid].state = "opened"
        /\ mrs[iid].source_branch = commits_data[i].source_branch }

\* C14: when the update phase of a create run is over, a request that was open
\* before the run is marked updated exactly when the run issued an update call
\* for it (its target branch, title or description changed) or its recorded
\* sha is not the sha of the entry's commit.
C14_MarkedUpdated ==
    pc = "push" =>
        \A i \in DOMAIN commits_data :
            \A iid \in PreExisting(i) :
                (iid \in Range(updated_mrs))
                    <=> \/ \E k \in DOMAIN log : log[k].op = "update" /\ log[k].iid = iid
                        \/ mrs[iid].sha # commits_data[i].commit.hexsha

\* The pipelines of earlier shas of the only commit of the stack.
OldPipelines ==
    { p \in pipelines :
        /\ p.sha # ShaOf(ran, 1)
        /\ p.sha[Len(p.sha)].cid = ran[1].cid }

\* C16: a completed run on a one-commit stack whose commit was amended, with
\* the commit's request open from before and a pipeline for the old sha, has
\* issued no create call, marked exactly one request updated, cancelled
\* exactly the pipeline of the old sha, and the request records the new sha.
C16_AmendedSingleCommit ==
    ( /\ Completed
      /\ Len(ran) = 1
      /\ OldPipelines # {}
      /\ \E iid \in DOMAIN mrs \ Range(new_mrs) :
            mrs[iid].source_branch = SourceOf(ran[1]) )
    => /\ Len(Calls("create")) = 0
       /\ Len(updated_mrs) = 1
       /\ mrs[updated_mrs[1]].sha = ShaOf(ran, 1)
       /\ \A p \in pipelines : p.status = "canceled" <=> p \in OldPipelines
       /\ Cardinality(OldPipelines) = 1

\* The engine's copy of the request of entry j shows a prepared request whose
\* head is the commit of the entry, and so does the backend.
Stabilised(j) ==
    /\ commits_data[j].mr.prepared_at
    /\ commits_data[j].mr.sha = commits_data[j].commit.hexsha
    /\ mrs[commits_data[j].mr.iid].prepared_at
    /\ mrs[commits_data[j].mr.iid].sha = commits_data[j].commit.hexsha

-----------------------------------------------------------------------------
(* Progress of the stabilisation wait. *)

\* The poll loop of wait_until_stable keeps polling (time.sleep(0.500) and
\* again), and the backend finishes the work it has for the polled request.
LiveSpec ==
    /\ Spec
    /\ WF_vars(Stabilize)
    /\ WF_vars(\E iid \in DOMAIN mrs : BackendPrepare(iid))
    /\ WF_vars(\E iid \in DOMAIN mrs : BackendIngest(iid))

\* The backend reports the request of entry j prepared and at the entry's commit.
BackendStable(j) ==
    /\ mrs[commits_data[j].mr.iid].prepared_at
    /\ mrs[commits_data[j].mr.iid].sha = commits_data[j].commit.hexsha

-----------------------------------------------------------------------------
(* Failed calls. *)

\* A create run is between its confirmation and its return.
InCreateRun == pc \in {"prompt", "create", "update", "push", "cancel", "stabilize", "report"}

\* C20: when a create or an update call of a create run has failed, the run is
\* over: the failed call is the last call of the run and was issued once, the
\* run has pushed nothing, cancelled no pipeline and reported no success, its
\* calls are the listing, creates and updates only (nothing is rolled back),
\* and the requests it created are still there as it created them.
C20_AbortOnFailedCall ==
    result \in {"create_failed", "update_failed"} =>
        /\ ~InCreateRun
        /\ log[Len(log)].op = (IF result = "create_failed" THEN "create" ELSE "update")
        /\ \A k \in 1..(Len(log) - 1) : log[k] # log[Len(log)]
        /\ \A k \in DOMAIN log : log[k].op \in {"list", "create", "update"}
        /\ \A p \in pipelines : p.status # "canceled"
        /\ \A k \in DOMAIN new_mrs :
              /\ new_mrs[k] \in DOMAIN mrs
              /\ mrs[new_mrs[k]].source_branch = commits_data[k].source_branch
              /\ mrs[new_mrs[k]].target_branch = commits_data[k].target_branch

\* The third update call of a run on three new commits has failed.
C20_Witness ==
    /\ result = "update_failed"
    /\ Len(new_mrs) = 3
    /\ Len(Calls("update")) = 3

\* A command has started and has not ended.
Running == pc \notin {"idle", "merge"}

\* C21: a command (create or merge) started with no local commit ahead of
\* remote/final_branch ends at once with the no-pending-commits error and has
\* made no backend call: no listing, create, update, push, cancel or merge,
\* and the requests, branches and pipelines it found are as they were.
C21_NoCommitsNoCalls ==
    (kind # "none" /\ ran = <<>>) =>
        /\ result = "no_commits"
        /\ ~Running
        /\ log = <<>>
        /\ commits_data = <<>>
        /\ merged = 0

\* A merge command ends so while the backend has requests of an earlier run.
C21_Witness ==
    /\ kind = "merge"
    /\ ran = <<>>
    /\ result = "no_commits"
    /\ Len(mrs) > 0

\* The local stack a command started from has a commit without Change-Id.
HasNoId(s) == s # None /\ \E i \in DOMAIN s : s[i].cid = NoId

\* C22: a command started from a stack one of whose commits has no Change-Id
\* in its message, at whatever position, ends with the missing-change-id
\* error while the plan is built: it has made no listing, create, update,
\* push, cancel or merge call.
C22_MissingChangeIdFailsFirst ==
    (kind # "none" /\ HasNoId(ran)) =>
        /\ result = "no_change_id"
        /\ ~Running
        /\ log = <<>>
        /\ commits_data = <<>>

\* The commit without Change-Id is the oldest of three, above requests of an
\* earlier run.
C22_Witness ==
    /\ kind = "create"
    /\ result = "no_change_id"
    /\ HasNoId(ran)
    /\ Len(ran) = 3
    /\ ran[1].cid = NoId
    /\ Len(mrs) > 0

\* The change a request was made for (its title is the title of the commit).
ChangeOf(iid) == mrs[iid].title.cid

AfterUpdates == kind = "create" /\ pc \in {"push", "cancel", "stabilize", "report"}

\* C24: once the update loop has run, the description of the request of every
\* entry of a plan of two or more entries is the commit's description (the
\* message without its title and its Change-Id line) followed by a block
\* that lists the request of every entry of the plan once, marks the entry's
\* own request and no other as this one, and ends with the final branch; the
\* request of a plan of one entry has the commit's description and no block.
C24_AugmentedDescription ==
    AfterUpdates =>
        \A i \in DOMAIN commits_data :
            LET d == mrs[commits_data[i].mr.iid].description
            IN  /\ d.body = ran[i]
                /\ Len(commits_data) = 1 => d.related = <<>> /\ d.final = <<>>
                /\ Len(commits_data) > 1 =>
                      /\ Len(d.related) = Len(commits_data)
                      /\ \A j \in DOMAIN commits_data :
                            \E k \in DOMAIN d.related :
                                /\ d.related[k].iid = commits_data[j].mr.iid
                                /\ d.related[k].this = (j = i)
                      /\ d.final = final_branch

\* The requests of a plan of three entries have been saved.
C24_Witness ==
    /\ AfterUpdates
    /\ pc = "push"
    /\ Len(commits_data) = 3
    /\ runs = 2

C29_DistinctSources ==
    \A i, j \in DOMAIN commits_data :
        LET ci == commits_data[i]
            cj == commits_data[j]
        IN  /\ ci.target_branch # ci.source_branch
            /\ (i # j /\ get_change_id(MessageOf(ci.commit.patch)) #
                              get_change_id(MessageOf(cj.commit.patch))) =>
                    /\ ci.source_branch # cj.source_branch
                    /\ ci.mr.iid # 0 => ci.mr.iid # cj.mr.iid

\* C28: over any sequence of calls of git_credentials.instance with any
\* hosts, two calls with the same host return the same store object, the
\* registry holds for a host the store that was returned for it, and no call
\* removes or replaces a store the registry holds.
C28_OneStorePerHost ==
    /\ [](\A a, b \in DOMAIN handed :
             handed[a].host = handed[b].host => handed[a].store = handed[b].store)
    /\ [](\A a \in DOMAIN handed :
             /\ handed[a].host \in DOMAIN INSTANCES
             /\ INSTANCES[handed[a].host] = handed[a].store)
    /\ [][\A h \in DOMAIN INSTANCES :
             h \in DOMAIN INSTANCES' /\ INSTANCES'[h] = INSTANCES[h]]_vars

\* Two hosts are asked for twice each, the calls interleaved.
C28_Witness ==
    /\ Len(handed) = 4
    /\ handed[1].host = handed[3].host
    /\ handed[2].host = handed[4].host
    /\ handed[1].host # handed[2].host

\* The list get_merge_request_chain was given at main.py:43, and its roots.
ChainInput == linked_requests(commits_data)

IsRoot(mr) ==
    \A i \in DOMAIN ChainInput : ChainInput[i].source_branch # mr.target_branch

Iids(ms) == [k \in DOMAIN ms |-> ms[k].iid]

\* merge_merge_requests has built the chain of main.py:43.
ChainBuilt ==
    /\ kind = "merge"
    /\ pc \in {"merging", "idle"}
    /\ result \in {"running", "returned", "merged", "update_failed"}

\* The request of the input whose source branch mr targets.
ParentOf(mr) ==
    ChainInput[CHOOSE i \in DOMAIN ChainInput :
                   ChainInput[i].source_branch = mr.target_branch]

\* mr is a root, or targets a request that is anchored in fewer than n steps.
RECURSIVE Anchored(_, _)
Anchored(mr, n) ==
    IsRoot(mr) \/ (n > 0 /\ Anchored(ParentOf(mr), n - 1))

\* The input is made of chains: every request is reached from a root and no
\* two requests that are not roots have the same target branch.
Linear ==
    /\ \A i \in DOMAIN ChainInput : Anchored(ChainInput[i], Len(ChainInput))
    /\ \A i, j \in DOMAIN ChainInput :
          (i # j /\ ~IsRoot(ChainInput[i])) =>
              ChainInput[i].target_branch # ChainInput[j].target_branch

\* The chain holds the roots of the input in their input order, begins with
\* one, and every request of the input that is not a root appears in it
\* immediately after the request whose source branch is its target branch.
BottomToTop ==
    /\ Iids(SelectSeq(mr_chain, IsRoot)) = Iids(SelectSeq(ChainInput, IsRoot))
    /\ mr_chain # <<>>
    /\ IsRoot(mr_chain[1])
    /\ \A i \in DOMAIN ChainInput :
          ~IsRoot(ChainInput[i]) =>
              \E k \in 2..Len(mr_chain) :
                  /\ mr_chain[k].iid = ChainInput[i].iid
                  /\ mr_chain[k - 1].source_branch = ChainInput[i].target_branch

\* C26 as stated (original): for every input, the chain
\* get_merge_request_chain returns is empty when the input is empty and is
\* otherwise bottom to top: roots in input order, each followed by its
\* chain, every request that is not a root immediately after the request
\* whose source branch is its target branch.
C26_ChainBottomToTop ==
    ChainBuilt => IF ChainInput = <<>> THEN mr_chain = <<>> ELSE BottomToTop

\* C26 (amended): the same for an input made of chains, in which every
\* request is reached from a root and no two requests that are not roots
\* have the same target branch; the chain then holds every request of the
\* input exactly once.  In every case the chain holds the roots in their
\* input order and only requests of the input, none twice.
C26_ChainOfLinearInput ==
    ChainBuilt =>
        /\ ChainInput = <<>> => mr_chain = <<>>
        /\ Iids(SelectSeq(mr_chain, IsRoot)) = Iids(SelectSeq(ChainInput, IsRoot))
        /\ \A k \in DOMAIN mr_chain :
              /\ \E i \in DOMAIN ChainInput : ChainInput[i].iid = mr_chain[k].iid
              /\ \A h \in DOMAIN mr_chain : h # k => mr_chain[h].iid # mr_chain[k].iid
        /\ (ChainInput # <<>> /\ Linear) =>
              /\ BottomToTop
              /\ Len(mr_chain) = Len(ChainInput)

\* The chain of three requests that the input lists top first.
C26_Witness ==
    /\ ChainBuilt
    /\ Linear
    /\ Len(ChainInput) = 3
    /\ Len(SelectSeq(ChainInput, IsRoot)) = 1
    /\ IsRoot(ChainInput[3])
    /\ ChainInput[1].target_branch = ChainInput[2].source_branch

\* The local commit a merged request belongs to.
PositionOf(iid) == CHOOSE i \in DOMAIN commits_data : commits_data[i].mr.iid = iid

\* The merge calls of the run, and the request (as the input of the chain
\* has it) of the k-th of them.
MergeCalls == Calls("merge")

MergedInput(k) == ChainInput[PositionOf(MergeCalls[k].iid)]

TargetsMatchLocalOrder ==
    /\ ChainInput # <<>>
    /\ IsRoot(ChainInput[1])
    /\ \A i \in 2..Len(ChainInput) :
          ChainInput[i].target_branch = ChainInput[i - 1].source_branch

IsPermutation ==
    /\ Len(mr_chain) = Len(ChainInput)
    /\ \A i \in DOMAIN ChainInput :
          \E k \in DOMAIN mr_chain : mr_chain[k].iid = ChainInput[i].iid

\* C31: for every input with pairwise distinct source
\* branches, also one in which two requests share a target branch or the
\* target branches form a cycle, get_merge_request_chain returns every
\* request of the input exactly once.
C31_ChainIsPermutation == ChainBuilt => IsPermutation

\* The run has ended without a failed call.
MergeDone == kind = "merge" /\ pc = "idle" /\ result \in {"returned", "merged"}

NewIids == { new_mrs[k] : k \in DOMAIN new_mrs }

\* C33: in every run of create_merge_requests the new list and the updated
\* list are disjoint: a request created in the run is never marked updated,
\* although the update phase may issue an update call for it and its recorded
\* sha is still empty, and its commit is never handed to pipeline cancellation.
C33_NewNotUpdated ==
    kind = "create" =>
        /\ \A k \in DOMAIN updated_mrs : updated_mrs[k] \notin NewIids
        /\ \A k \in DOMAIN commits_to_pipeline_cancel :
              \A i \in DOMAIN commits_data :
                  commits_data[i].commit = commits_to_pipeline_cancel[k] =>
                      commits_data[i].mr.iid \notin NewIids

\* The update phase has ended after an update call for a request the run
\* created, whose recorded sha is still empty.
C33_Witness ==
    /\ AfterUpdates
    /\ \E k \in DOMAIN log :
          /\ log[k].op = "update"
          /\ log[k].iid \in NewIids
    /\ \A i \in DOMAIN commits_data :
          /\ commits_data[i].mr.iid \in NewIids
          /\ commits_data[i].mr.sha = None
          /\ commits_data[i].mr.sha # commits_data[i].commit.hexsha

\* The pipelines that have been canceled.
Canceled == { p \in pipelines : p.status = "canceled" }

SetterTitles(mr) ==
    {mr.title} \cup
    { generate_augmented_mr_description(commits_data, i).title : i \in DOMAIN commits_data }

SetterDescs(mr) ==
    LET ds == {mr.description} \cup
              { generate_augmented_mr_description(commits_data, i).desc :
                  i \in DOMAIN commits_data }
    IN  ds \cup { [d EXCEPT !.ws = ~@] : d \in ds }

\* C36: MergeRequest.save issues one update call and returns true exactly
\* when a setter changed the target branch, the title or the description
\* since the last save (descriptions compared without leading and trailing
\* whitespace), and otherwise issues no call and returns false; a second save
\* with no setter change in between issues no call.
C36_SaveIffChanged ==
    (kind = "create" /\ pc = "update") =>
        LET mr == commits_data[idx].mr
        IN  \A target_branch \in BranchNames, title \in SetterTitles(mr),
               desc \in SetterDescs(mr) :
                LET mr1     == set_desc(set_title(set_target_branch(mr, target_branch),
                                                  title), desc)
                    first   == save(mr1)
                    second  == save(first.mr)
                    changed == \/ mr.needs_save
                               \/ target_branch # mr.target_branch
                               \/ title # mr.title
                               \/ Strip(desc) # Strip(mr.description)
                IN  /\ first.saved = changed
                    /\ Len(first.calls) = IF changed THEN 1 ELSE 0
                    /\ \A k \in DOMAIN first.calls :
                          /\ first.calls[k].op = "update"
                          /\ first.calls[k].iid = mr.iid
                    /\ second.saved = FALSE
                    /\ second.calls = <<>>

\* The update loop has saved the request of its first entry with one update
\* call and is at its second entry, whose request no setter has touched yet.
C36_Witness ==
    /\ kind = "create"
    /\ pc = "update"
    /\ idx = 2
    /\ Len(Calls("update")) = 1
    /\ log[Len(log)].iid = commits_data[1].mr.iid
    /\ ~commits_data[1].mr.needs_save
    /\ ~commits_data[2].mr.needs_save

\* C37: _get_open_merge_requests asks for the pages 1, 2, 3, ... in this
\* order, stops at the first empty page and returns every page before it,
\* none of them empty: the listing ends, and the requests it hands over are
\* all the open requests, each once; when the backend answers a page with an
\* error, the command ends with nothing but listing calls issued and the
\* requests, branches and pipelines as they were.
C37_ListsEveryPage ==
    /\ [](LET pages == get_open_merge_requests
          IN  /\ \A k \in DOMAIN pages :
                    /\ pages[k] = Page(k)
                    /\ pages[k] # <<>>
                    /\ Len(pages[k]) <= PerPage
              /\ Page(Len(pages) + 1) = <<>>
              /\ Flatten(pages) = OpenRequests
              /\ \A k \in DOMAIN log : log[k].op = "list" => log[k].iid = k
              /\ (pc = "idle" /\ result = "list_failed") =>
                    \A k \in DOMAIN log : log[k].op = "list")
    /\ [][runs' = runs + 1 =>
            LET pages == get_open_merge_requests
            IN  /\ result' \notin {"no_commits", "no_change_id", "list_failed"} =>
                      /\ Calls("list")' = list_calls(Len(pages) + 1)
                      /\ commits_data' = get_commits_data
                /\ result' = "list_failed" =>
                      /\ \E page \in 1..(Len(pages) + 1) : log' = list_calls(page)
                      /\ UNCHANGED <<mrs, branches, pipelines>>]_vars

\* A create run has listed more open requests than one page holds: two pages
\* and the empty third one.
C37_Witness ==
    /\ kind = "create"
    /\ pc = "create"
    /\ Len(Calls("list")) = 3
    /\ Len(OpenRequests) > PerPage
    /\ Len(get_open_merge_requests) = 2

\* The answers that go on, and the answers that decline.
AnswersYes == { <<>>, <<"y">>, <<"y", "e", "s">> }

AnswersNo == { <<"n">>, <<"n", "o">> }

\* A step in which the prompt of a create run reads an answer.
Answered == pc = "prompt" /\ (do_review' # do_review \/ pc' # pc)

\* C35: when the user answers n or no at the prompt of create_merge_requests,
\* the command returns having issued listing calls only: no create, update,
\* push or cancel call, and requests, branches and pipelines are left as
\* they were; an answer that is not empty, y, yes, n or no is asked again, and
\* the command goes on to its first create only on empty, y or yes.
C35_DeclineChangesNothing ==
    /\ [](kind = "create" =>
            /\ (pc = "prompt" \/ (pc = "idle" /\ result = "declined")) =>
                  \A k \in DOMAIN log : log[k].op = "list"
            /\ (pc = "idle" /\ result = "declined") => do_review \in AnswersNo
            /\ (pc = "create" /\ do_review # Unasked) => do_review \in AnswersYes)
    /\ [][/\ (runs' = runs + 1 /\ kind' = "create") =>
                UNCHANGED <<mrs, branches, pipelines>>
          /\ Answered =>
                /\ UNCHANGED <<mrs, branches, pipelines, log, commits_data>>
                /\ do_review' \in AnswersNo => (pc' = "idle" /\ result' = "declined")
                /\ do_review' \in AnswersYes => (pc' = "create" /\ result' = "running")
                /\ do_review' \notin (AnswersYes \cup AnswersNo) =>
                      (pc' = "prompt" /\ result' = "running")
          /\ (pc' = "create" /\ pc # "create") => (Answered /\ do_review' \in AnswersYes)
          /\ (result' = "declined" /\ result # "declined") =>
                (Answered /\ do_review' \in AnswersNo)]_vars

\* The user has answered no to a second create run: the three requests of the
\* first run are open and the run has listed them (two pages and the empty
\* one), nothing else.
C35_Witness ==
    /\ kind = "create"
    /\ pc = "idle"
    /\ result = "declined"
    /\ do_review = <<"n", "o">>
    /\ runs = 2
    /\ Len(OpenRequests) = 3
    /\ Len(log) = 3
    /\ ran # synced

====
